---- MODULE Spec2Model ----
(***************************************************************************)
(* Model of ssc_pdf_to_quiz_json.py: the answer-key parser                 *)
(* (parse_answers), the question segmenter (parse_questions with its       *)
(* nested flush) and the line classifiers they use.                        *)
(*                                                                         *)
(* A text is a sequence of one-character strings, so that the regular      *)
(* expressions, clean(), upper() and the substring tests are computed      *)
(* character by character as the code computes them.  Indices are the      *)
(* 0-based indices of the Python code: lines[k] of the code is             *)
(* lines[k + 1] here.                                                      *)
(*                                                                         *)
(* Left out: the page index of a line and the `source` field, which        *)
(* parse_questions computes from the first two pages before its loop and   *)
(* copies unchanged into every record; to_dict and the JSON output.        *)
(***************************************************************************)
EXTENDS Integers, Sequences, FiniteSets, TLC

(* ------------------------------ bounds --------------------------------- *)

\* longest document drawn from Catalogue
MaxLen == 3

\* most lines of a document made of a question body, an ANSWERS marker and an
\* answer key, the marker not counted
MaxKeyedLen == 4

(* --------------------------- characters -------------------------------- *)

LowerChars == <<"a", "b", "c", "d", "e", "f", "g", "h", "i", "j", "k", "l", "m", "n", "o", "p", "q", "r", "s", "t", "u", "v", "w", "x", "y", "z">>

UpperChars == <<"A", "B", "C", "D", "E", "F", "G", "H", "I", "J", "K", "L", "M", "N", "O", "P", "Q", "R", "S", "T", "U", "V", "W", "X", "Y", "Z">>

DigitChars == <<"0", "1", "2", "3", "4", "5", "6", "7", "8", "9">>

\* position of c in alphabet s, 0 when absent
IndexOf(s, c) == IF \E k \in 1..Len(s) : s[k] = c THEN CHOOSE k \in 1..Len(s) : s[k] = c ELSE 0

\* str.upper() on one character
UpperChar(c) == IF IndexOf(LowerChars, c) > 0 THEN UpperChars[IndexOf(LowerChars, c)] ELSE c

\* str.lower() on one character
LowerChar(c) == IF IndexOf(UpperChars, c) > 0 THEN LowerChars[IndexOf(UpperChars, c)] ELSE c

upper(s) == [k \in 1..Len(s) |-> UpperChar(s[k])]

lower(s) == [k \in 1..Len(s) |-> LowerChar(s[k])]

\* the regex class \s (the whitespace a text line can hold)
IsSpace(c) == c \in {" ", "\t"}

\* the regex class \d
IsDigit(c) == IndexOf(DigitChars, c) > 0

\* [a-dA-D]
IsOptLetter(c) == c \in {"a", "b", "c", "d", "A", "B", "C", "D"}

(* ----------------------------- strings --------------------------------- *)

RECURSIVE SkipSpaces(_)
\* the text left after a greedy \s*
SkipSpaces(s) == IF s # <<>> /\ IsSpace(Head(s)) THEN SkipSpaces(Tail(s)) ELSE s

RECURSIVE SkipDigits(_)
\* the text left after a greedy \d*
SkipDigits(s) == IF s # <<>> /\ IsDigit(Head(s)) THEN SkipDigits(Tail(s)) ELSE s

RECURSIVE RStrip(_)
RStrip(s) == IF s # <<>> /\ IsSpace(s[Len(s)]) THEN RStrip(SubSeq(s, 1, Len(s) - 1)) ELSE s

\* str.strip()
strip(s) == RStrip(SkipSpaces(s))

RECURSIVE CollapseSpaces(_)
\* rex.sub(r"\s+", " ", t)
CollapseSpaces(s) ==
    IF s = <<>> THEN <<>>
    ELSE IF IsSpace(Head(s)) THEN <<" ">> \o CollapseSpaces(SkipSpaces(s))
    ELSE <<Head(s)>> \o CollapseSpaces(Tail(s))

clean(t) == strip(CollapseSpaces(t))

\* str.startswith
StartsWith(s, p) == Len(s) >= Len(p) /\ SubSeq(s, 1, Len(p)) = p

\* the Python test `p in s` on strings
Contains(s, p) == \E k \in 0..(Len(s) - Len(p)) : SubSeq(s, k + 1, k + Len(p)) = p

RECURSIVE ParseInt(_)
\* int() of a run of decimal digits
ParseInt(ds) == IF ds = <<>> THEN 0 ELSE 10 * ParseInt(SubSeq(ds, 1, Len(ds) - 1)) + (IndexOf(DigitChars, ds[Len(ds)]) - 1)

RECURSIVE JoinSpace(_)
\* " ".join(parts)
JoinSpace(parts) ==
    IF parts = <<>> THEN <<>>
    ELSE IF Len(parts) = 1 THEN parts[1]
    ELSE parts[1] \o <<" ">> \o JoinSpace(Tail(parts))

(* ------------------------- regular expressions ------------------------- *)

\* result of a failed match step; no text holds a two-character element
Fail == <<"no match">>

\* a literal character of a pattern
Lit(s, c) == IF s # Fail /\ s # <<>> /\ Head(s) = c THEN Tail(s) ELSE Fail

\* a literal character of a case-insensitive pattern
LitI(s, c) == IF s # Fail /\ s # <<>> /\ UpperChar(Head(s)) = UpperChar(c) THEN Tail(s) ELSE Fail

RECURSIVE WordI(_, _)
\* a literal word of a case-insensitive pattern
WordI(s, w) == IF w = <<>> THEN s ELSE WordI(LitI(s, Head(w)), Tail(w))

\* \s*
Sp(s) == IF s = Fail THEN Fail ELSE SkipSpaces(s)

\* \d+
Digits1(s) == IF s = Fail \/ s = <<>> \/ ~IsDigit(Head(s)) THEN Fail ELSE SkipDigits(s)

\* (\.\d+)?  -- taken only when a digit follows the period
OptFraction(s) ==
    IF s # Fail /\ Len(s) >= 2 /\ s[1] = "." /\ IsDigit(s[2]) THEN SkipDigits(Tail(s)) ELSE s

\* the leading group (\d{1,3}) followed by the literal period: the digit
\* run must be 1 to 3 long, since the period cannot match a digit
LeadNumber(s) ==
    LET n == Len(s) - Len(SkipDigits(s))
    IN  IF s # Fail /\ n >= 1 /\ n <= 3 /\ Lit(SkipDigits(s), ".") # Fail
        THEN [matched |-> TRUE, digits |-> SubSeq(s, 1, n), rest |-> Lit(SkipDigits(s), ".")]
        ELSE [matched |-> FALSE, digits |-> <<>>, rest |-> Fail]

\* QNUM_RE.match(txt): ^(\d{1,3})\.\s*(.*)
QNUM_RE(txt) ==
    LET n == LeadNumber(txt)
    IN  IF n.matched
        THEN [matched |-> TRUE, g1 |-> n.digits, g2 |-> SkipSpaces(n.rest)]
        ELSE [matched |-> FALSE, g1 |-> <<>>, g2 |-> <<>>]

\* OPTION_RE.match(txt): ^(?:[a-dA-D][\.\)]|[a-dA-D]\s)\s*(.+)
\* (.+) needs one character: when only whitespace follows the marker, \s*
\* gives back its last character to the group
OPTION_RE(txt) ==
    IF Len(txt) >= 3 /\ IsOptLetter(txt[1]) /\ (txt[2] \in {".", ")"} \/ IsSpace(txt[2]))
    THEN LET rest == SubSeq(txt, 3, Len(txt))
         IN  [matched |-> TRUE,
              g1 |-> IF SkipSpaces(rest) = <<>> THEN <<rest[Len(rest)]>> ELSE SkipSpaces(rest)]
    ELSE [matched |-> FALSE, g1 |-> <<>>]

\* MARKS_RE matched at the start of s: \(\s*\+?\d+\s*,\s*-\s*\d+(\.\d+)?\s*\)
MarksAt(s) ==
    LET a == Sp(Lit(s, "("))
        b == IF Lit(a, "+") # Fail THEN Lit(a, "+") ELSE a
        c == Sp(Lit(Sp(Digits1(b)), ","))
        d == Digits1(Sp(Lit(c, "-")))
    IN  Lit(Sp(OptFraction(d)), ")") # Fail

\* MARKS_RE.search(txt)
MARKS_RE(txt) == \E k \in 1..Len(txt) : MarksAt(SubSeq(txt, k, Len(txt)))

\* ANS_LINE_RE.match(txt): ^\s*(\d{1,3})\.\s*Answer\s*:\s*([A-D])\s*$ with rex.I
ANS_LINE_RE(txt) ==
    LET n == LeadNumber(SkipSpaces(txt))
        a == Sp(Lit(Sp(WordI(Sp(n.rest), <<"A", "n", "s", "w", "e", "r">>)), ":"))
    IN  IF n.matched /\ a # Fail /\ a # <<>> /\ IsOptLetter(Head(a)) /\ SkipSpaces(Tail(a)) = <<>>
        THEN [matched |-> TRUE, g1 |-> n.digits, g2 |-> <<Head(a)>>]
        ELSE [matched |-> FALSE, g1 |-> <<>>, g2 |-> <<>>]

\* EXPL_HDR_RE.match(txt): ^\s*Explanation\s*:\s*$ with rex.I
EXPL_HDR_RE(txt) == Sp(Lit(Sp(WordI(SkipSpaces(txt), <<"E", "x", "p", "l", "a", "n", "a", "t", "i", "o", "n">>)), ":")) = <<>>

(* --------------------------- configuration ----------------------------- *)

\* SECTION_HEADERS, in the insertion order the dict is iterated in
SECTION_HEADERS == <<
    <<<<"G", "E", "N", "E", "R", "A", "L", " ", "I", "N", "T", "E", "L", "L", "I", "G", "E", "N", "C", "E", " ", "A", "N", "D", " ", "R", "E", "A", "S", "O", "N", "I", "N", "G">>, <<"G", "e", "n", "e", "r", "a", "l", " ", "I", "n", "t", "e", "l", "l", "i", "g", "e", "n", "c", "e", " ", "a", "n", "d", " ", "R", "e", "a", "s", "o", "n", "i", "n", "g">>>>,
    <<<<"G", "E", "N", "E", "R", "A", "L", " ", "A", "W", "A", "R", "E", "N", "E", "S", "S">>, <<"G", "e", "n", "e", "r", "a", "l", " ", "A", "w", "a", "r", "e", "n", "e", "s", "s">>>>,
    <<<<"Q", "U", "A", "N", "T", "I", "T", "A", "T", "I", "V", "E", " ", "A", "P", "T", "I", "T", "U", "D", "E">>, <<"Q", "u", "a", "n", "t", "i", "t", "a", "t", "i", "v", "e", " ", "A", "p", "t", "i", "t", "u", "d", "e">>>>,
    <<<<"E", "N", "G", "L", "I", "S", "H", " ", "C", "O", "M", "P", "R", "E", "H", "E", "N", "S", "I", "O", "N">>, <<"E", "n", "g", "l", "i", "s", "h", " ", "C", "o", "m", "p", "r", "e", "h", "e", "n", "s", "i", "o", "n">>>> >>

\* Python's None for an Optional[str]; every text the code stores in such a
\* place (subject, subtopic) is non-empty
None == <<>>

\* Python's None for an Optional[int]; the numbers the code stores are >= 0
NoNum == -1

\* the fallback of `current_subject or "General"`
General == <<"G", "e", "n", "e", "r", "a", "l">>

(* ------------------------------ helpers -------------------------------- *)

\* detect_section consulted only for a line that is not a question-start, as
\* if the question-start test came first
detect_section_afterqnum(line) ==
    LET L == upper(clean(line))
        hits == {k \in 1..Len(SECTION_HEADERS) : Contains(L, SECTION_HEADERS[k][1])}
    IN  IF hits = {} \/ QNUM_RE(line).matched THEN None
        ELSE SECTION_HEADERS[CHOOSE k \in hits : \A h \in hits : k <= h][2]

\* detect_section(line): the value of the first key found in the line
detect_section(line) ==
    LET L == upper(clean(line))
        hits == {k \in 1..Len(SECTION_HEADERS) : Contains(L, SECTION_HEADERS[k][1])}
    IN  IF hits = {} THEN None
        ELSE SECTION_HEADERS[CHOOSE k \in hits : \A h \in hits : k <= h][2]

\* guess_topic_from_text(subject, q_text), the pair (topic, subtopic)
guess_topic_from_text(subject, q_text) ==
    LET ql == lower(q_text)
    IN  IF subject = <<"Q", "u", "a", "n", "t", "i", "t", "a", "t", "i", "v", "e", " ", "A", "p", "t", "i", "t", "u", "d", "e">> /\ Contains(ql, <<"t", "r", "i", "a", "n", "g", "l", "e">>)
        THEN <<<<"G", "e", "o", "m", "e", "t", "r", "y">>, <<"T", "r", "i", "a", "n", "g", "l", "e", "s">>>>
        ELSE IF subject = <<"Q", "u", "a", "n", "t", "i", "t", "a", "t", "i", "v", "e", " ", "A", "p", "t", "i", "t", "u", "d", "e">> /\ Contains(ql, <<"a", "v", "e", "r", "a", "g", "e">>)
        THEN <<<<"A", "v", "e", "r", "a", "g", "e", "s">>, None>>
        ELSE IF subject = <<"Q", "u", "a", "n", "t", "i", "t", "a", "t", "i", "v", "e", " ", "A", "p", "t", "i", "t", "u", "d", "e">> /\ Contains(ql, <<"r", "a", "t", "i", "o">>)
        THEN <<<<"R", "a", "t", "i", "o", " ", "&", " ", "P", "r", "o", "p", "o", "r", "t", "i", "o", "n">>, None>>
        ELSE <<subject, None>>

\* the format spec {n:03d}, for the numbers 0..999 that QNUM_RE captures
Pad3(n) == <<DigitChars[((n \div 100) % 10) + 1], DigitChars[((n \div 10) % 10) + 1], DigitChars[(n % 10) + 1]>>

\* subj.lower().replace(" ", "-")
Slug(subj) == [k \in 1..Len(subj) |-> IF subj[k] = " " THEN "-" ELSE LowerChar(subj[k])]

\* OptionObj(key, en) with its defaulted fields
OptionObj(key, en) == [key |-> key, en |-> en, hi |-> <<>>, image |-> <<>>]

(* ------------------------------ inputs --------------------------------- *)

\* Lines as read_lines returns them: each already passed through clean().
L_header == <<"7", ".", " ", "G", "E", "N", "E", "R", "A", "L", " ", "A", "W", "A", "R", "E", "N", "E", "S", "S">>

L_header2 == <<"Q", "U", "A", "N", "T", "I", "T", "A", "T", "I", "V", "E", " ", "A", "P", "T", "I", "T", "U", "D", "E">>

L_question == <<"0", ".", " ", "(", "+", "2", ",", "-", "0", ".", "5", ")">>

L_question2 == <<"2", ".", " ", "r", "a", "t", "i", "o">>

L_answerB == <<"1", ".", " ", "A", "n", "s", "w", "e", "r", ":", " ", "B">>

L_answera == <<"1", ".", " ", "a", "n", "s", "w", "e", "r", " ", ":", " ", "a">>

L_answer2 == <<"2", ".", " ", "A", "n", "s", "w", "e", "r", ":", " ", "C">>

L_optionA == <<"A", ".", " ", "3">>

L_optionc == <<"c", ")", " ", "x">>

L_marks == <<"(", "+", "2", ",", "-", "0", ".", "5", ")">>

L_marker == <<"A", "n", "s", "w", "e", "r", "s">>

L_explhdr == <<"E", "x", "p", "l", "a", "n", "a", "t", "i", "o", "n", ":">>

L_plain == <<"B", "a", "s", "i", "c", ".">>

L_empty == <<>>

Catalogue == {L_header, L_header2, L_question, L_question2, L_answerB, L_optionA, L_optionc,
              L_marks, L_marker, L_explhdr, L_plain, L_empty}

\* the lines of a question body
BodyLines == {L_header2, L_question, L_question2, L_optionc, L_plain}

\* the lines of an answer key
KeyLines == {L_answerB, L_answera, L_answer2, L_explhdr, L_plain}

\* the document of the scenario of the specification, section 8
Scenario == <<<<"G", "E", "N", "E", "R", "A", "L", " ", "A", "W", "A", "R", "E", "N", "E", "S", "S">>, <<"1", ".", " ", "W", "h", "a", "t", " ", "i", "s", " ", "2", "+", "2", "?">>, <<"A", ".", " ", "3">>, <<"B", ".", " ", "4">>, <<"(", "+", "2", ",", "-", "0", ".", "5", ")">>,
              <<"A", "N", "S", "W", "E", "R", "S">>, <<"1", ".", " ", "A", "n", "s", "w", "e", "r", ":", " ", "B">>, <<"E", "x", "p", "l", "a", "n", "a", "t", "i", "o", "n", ":">>, <<"B", "a", "s", "i", "c", " ", "a", "r", "i", "t", "h", "m", "e", "t", "i", "c", ".">>>>

\* a document with an answer-line above the marker line and another below
AnswerAboveMarker == <<L_answer2, L_marker, L_answerB>>

\* all sequences over S of length at most n
BoundedSeq(S, n) == UNION {[1..m -> S] : m \in 0..n}

\* the documents explored: any short document, any short body followed by a
\* marker and a short answer key, and the scenario
Docs == BoundedSeq(Catalogue, MaxLen)
        \cup UNION {{b \o <<L_marker>> \o k : k \in BoundedSeq(KeyLines, MaxKeyedLen - Len(b))} :
                       b \in BoundedSeq(BodyLines, MaxKeyedLen)}
        \cup {Scenario, AnswerAboveMarker}

(* ------------------------------- state --------------------------------- *)

VARIABLES
    lines,            \* main: the cleaned lines read_lines returned
    pc,               \* main: "find_marker", "answers", "questions" or "done"
    idx,              \* parse_answers: index of the marker line, -1 if none
    i,                \* parse_answers: index of the line the scan is at
    ans_map,          \* parse_answers: number -> <<letter, explanation>>
    current_q,        \* parse_answers: pending number, or NoNum
    current_ans,      \* parse_answers: pending letter
    collecting,       \* parse_answers: the explanation flag
    expl_buf,         \* parse_answers: the explanation lines collected
    pos,              \* parse_questions: index of the line the for loop is at
    questions,        \* parse_questions: the records appended so far
    current_subject,  \* parse_questions: subject, or None
    current_qnum,     \* parse_questions: number of the open question, or NoNum
    current_qtext,    \* parse_questions: its text so far
    current_opts      \* parse_questions: its options so far

vars == <<lines, pc, idx, i, ans_map, current_q, current_ans, collecting, expl_buf,
          pos, questions, current_subject, current_qnum, current_qtext, current_opts>>

answerVars == <<idx, i, ans_map, current_q, current_ans, collecting, expl_buf>>

questionVars == <<pos, questions, current_subject, current_qnum, current_qtext, current_opts>>

\* the empty dict
EmptyMap == [n \in {} |-> <<>>]

\* lines[k] of the code
Line(k) == lines[k + 1]

Init ==
    /\ lines \in Docs
    /\ pc = "find_marker"
    /\ idx = -1
    /\ i = 0
    /\ ans_map = EmptyMap
    /\ current_q = NoNum
    /\ current_ans = <<>>
    /\ collecting = FALSE
    /\ expl_buf = <<>>
    /\ pos = 0
    /\ questions = <<>>
    /\ current_subject = None
    /\ current_qnum = NoNum
    /\ current_qtext = <<>>
    /\ current_opts = <<>>

(* --------------------------- parse_answers ----------------------------- *)

\* the test of the marker scan
IsMarker(txt) == StartsWith(upper(txt), <<"A", "N", "S", "W", "E", "R", "S">>)

\* MarkerIndex that takes the first line for the marker whenever the text
\* holds one
MarkerIndex_start(ls) ==
    IF \E k \in 1..Len(ls) : IsMarker(ls[k]) THEN 0
    ELSE -1

\* the marker scan: the index of the first marker line, -1 when there is none
MarkerIndex(ls) ==
    IF \E k \in 1..Len(ls) : IsMarker(ls[k])
    THEN (CHOOSE k \in 1..Len(ls) : IsMarker(ls[k]) /\ \A h \in 1..(k - 1) : ~IsMarker(ls[h])) - 1
    ELSE -1

\* NoMarker without the early return: the scan falls through to the loop
NoMarker_never(x) == FALSE

\* the test of the early return
NoMarker(x) == x < 0

\* ans_map[q] = (a, clean(" ".join(buf)))
Commit(m, q, a, buf) ==
    [n \in DOMAIN m \cup {q} |-> IF n = q THEN <<a, clean(JoinSpace(buf))>> ELSE m[n]]

\* the commit of an answer-line: it assigns whether or not q is a key
CommitPending(m, q, a, buf) == IF q # NoNum THEN Commit(m, q, a, buf) ELSE m

\* the commit at the end of the stream
CommitFinal(m, q, a, buf) == IF q # NoNum /\ q \notin DOMAIN m THEN Commit(m, q, a, buf) ELSE m

\* parse_answers up to its loop: the marker scan and the early return
FindMarker ==
    /\ pc = "find_marker"
    /\ idx' = MarkerIndex(lines)
    /\ IF NoMarker(idx')
       THEN /\ pc' = "questions"
            /\ i' = i
       ELSE /\ pc' = "answers"
            /\ i' = idx' + 1
    /\ UNCHANGED <<lines, ans_map, current_q, current_ans, collecting, expl_buf>>
    /\ UNCHANGED questionVars

\* NextIndex when the collecting test is made before the answer-line test
NextIndex_collectfirst(txt, coll, k) ==
    IF coll /\ ANS_LINE_RE(txt).matched THEN k
    ELSE k + 1

\* the line index after an iteration on line k, text txt, with the collecting
\* flag coll: i += 1 in every branch but the `continue` of the collecting
\* block
NextIndex(txt, coll, k) ==
    IF ANS_LINE_RE(txt).matched THEN k + 1
    ELSE IF EXPL_HDR_RE(txt) THEN k + 1
    ELSE IF coll /\ ANS_LINE_RE(txt).matched THEN k
    ELSE k + 1

\* AnswersStep whose answer-line branch leaves the collecting flag as it is
AnswersStep_keepcollecting ==
    /\ pc = "answers"
    /\ i < Len(lines)
    /\ LET txt == Line(i)
           m == ANS_LINE_RE(txt)
       IN  IF m.matched
           THEN /\ ans_map' = CommitPending(ans_map, current_q, current_ans, expl_buf)
                /\ expl_buf' = IF current_q # NoNum THEN <<>> ELSE expl_buf
                /\ current_q' = ParseInt(m.g1)
                /\ current_ans' = upper(m.g2)
                /\ i' = i + 1
                /\ UNCHANGED collecting
           ELSE IF EXPL_HDR_RE(txt)
           THEN /\ collecting' = TRUE
                /\ i' = i + 1
                /\ UNCHANGED <<ans_map, expl_buf, current_q, current_ans>>
           ELSE /\ expl_buf' = IF collecting /\ strip(txt) # <<>>
                                THEN Append(expl_buf, strip(txt)) ELSE expl_buf
                /\ i' = i + 1
                /\ UNCHANGED <<ans_map, current_q, current_ans, collecting>>
    /\ UNCHANGED <<lines, pc, idx>>
    /\ UNCHANGED questionVars

\* one iteration of the while loop of parse_answers
AnswersStep ==
    /\ pc = "answers"
    /\ i < Len(lines)
    /\ LET txt == Line(i)
           m == ANS_LINE_RE(txt)
       IN  IF m.matched
           THEN /\ ans_map' = CommitPending(ans_map, current_q, current_ans, expl_buf)
                /\ expl_buf' = IF current_q # NoNum THEN <<>> ELSE expl_buf
                /\ current_q' = ParseInt(m.g1)
                /\ current_ans' = upper(m.g2)
                /\ collecting' = FALSE
           ELSE IF EXPL_HDR_RE(txt)
           THEN /\ collecting' = TRUE
                /\ UNCHANGED <<ans_map, expl_buf, current_q, current_ans>>
           ELSE IF collecting /\ ANS_LINE_RE(txt).matched
           THEN \* `continue` without advancing i
                UNCHANGED <<ans_map, expl_buf, current_q, current_ans, collecting>>
           ELSE /\ expl_buf' = IF collecting /\ strip(txt) # <<>>
                                THEN Append(expl_buf, strip(txt)) ELSE expl_buf
                /\ UNCHANGED <<ans_map, current_q, current_ans, collecting>>
    /\ i' = NextIndex(Line(i), collecting, i)
    /\ UNCHANGED <<lines, pc, idx>>
    /\ UNCHANGED questionVars

\* the end of the while loop: the final commit and the return
AnswersReturn ==
    /\ pc = "answers"
    /\ i >= Len(lines)
    /\ ans_map' = CommitFinal(ans_map, current_q, current_ans, expl_buf)
    /\ pc' = "questions"
    /\ UNCHANGED <<lines, idx, i, current_q, current_ans, collecting, expl_buf>>
    /\ UNCHANGED questionVars

(* -------------------------- parse_questions ---------------------------- *)

\* SubjectOrDefault without the fallback label
SubjectOrDefault_nofallback(s) == s

\* `current_subject or "General"`
SubjectOrDefault(s) == IF s # None THEN s ELSE General

\* Lookup that drops the explanation of the pair
Lookup_letteronly(m, n) == IF n \in DOMAIN m THEN <<m[n][1], <<>>>> ELSE <<<<>>, <<>>>>

\* the pair flush reads from the answer map: ans_map[n] for a key, ("", "")
\* otherwise
Lookup(m, n) == IF n \in DOMAIN m THEN m[n] ELSE <<<<>>, <<>>>>

\* the record flush builds
QuestionObj(qnum, subject, qtext, opts, m) ==
    LET subj == SubjectOrDefault(subject)
        tp == guess_topic_from_text(subj, qtext)
    IN  [id |-> <<"S", "S", "C", "-", "C", "G", "L", "-", "2", "0", "2", "4", "-", "S", "h", "i", "f", "t", "-", "1", "-", "Q">> \o Pad3(qnum),
         qnum |-> qnum,
         subject |-> subj,
         topic |-> tp[1],
         subtopic |-> tp[2],
         difficulty |-> <<"m", "e", "d", "i", "u", "m">>,
         q_en |-> clean(qtext),
         q_hi |-> <<>>,
         q_image |-> <<>>,
         options |-> opts,
         answer |-> Lookup(m, qnum)[1],
         explanation_en |-> Lookup(m, qnum)[2],
         explanation_hi |-> <<>>,
         explanation_image |-> <<>>,
         assets |-> <<>>,
         tags |-> <<<<"p", "y", "q">>, <<"b", "i", "l", "i", "n", "g", "u", "a", "l">>, Slug(subj)>>]

\* flush that skips a number already in the output
flush_dedup ==
    IF current_qnum = NoNum \/ (\E r \in 1..Len(questions) : questions[r].qnum = current_qnum)
    THEN questions
    ELSE Append(questions, QuestionObj(current_qnum, current_subject, current_qtext, current_opts, ans_map))

\* flush that inserts the record at the front of the output
flush_front ==
    IF current_qnum = NoNum THEN questions
    ELSE <<QuestionObj(current_qnum, current_subject, current_qtext, current_opts, ans_map)>> \o questions

\* flush that leaves the text of the previous record in front of the new one
flush_carrytext ==
    IF current_qnum = NoNum THEN questions
    ELSE Append(questions,
                QuestionObj(current_qnum, current_subject,
                            (IF questions = <<>> THEN <<>> ELSE questions[Len(questions)].q_en \o <<" ">>)
                                \o current_qtext,
                            current_opts, ans_map))

\* flush that drops a question the answer map has no entry for
flush_answeredonly ==
    IF current_qnum = NoNum \/ current_qnum \notin DOMAIN ans_map THEN questions
    ELSE Append(questions, QuestionObj(current_qnum, current_subject, current_qtext, current_opts, ans_map))

\* flush(): the value of `questions` after the call; it changes nothing else
flush ==
    IF current_qnum = NoNum THEN questions
    ELSE Append(questions, QuestionObj(current_qnum, current_subject, current_qtext, current_opts, ans_map))

\* OptionKey without upper()
OptionKey_raw(txt) == strip(txt)[1]

\* raw = txt.strip(); key = raw[0].upper()
OptionKey(txt) == UpperChar(strip(txt)[1])

\* NextQText without the marks test
NextQText_nomarks(qtext, txt) ==
    IF /\ txt # <<>>
       /\ detect_section(txt) = None
       /\ ~QNUM_RE(txt).matched
       /\ ~IsMarker(txt)
       /\ ~OPTION_RE(txt).matched
    THEN qtext \o <<" ">> \o txt
    ELSE qtext

\* the text after a line that is neither an option nor a boundary, while a
\* question is open: a marks line is skipped, a plain line is appended
NextQText(qtext, txt) ==
    IF MARKS_RE(txt) THEN qtext
    ELSE IF /\ txt # <<>>
            /\ detect_section(txt) = None
            /\ ~QNUM_RE(txt).matched
            /\ ~IsMarker(txt)
            /\ ~OPTION_RE(txt).matched
    THEN qtext \o <<" ">> \o txt
    ELSE qtext

\* QuestionsStep without the test that a question is open
QuestionsStep_noguard ==
    /\ pc = "questions"
    /\ pos < Len(lines)
    /\ LET txt == Line(pos)
           sec == detect_section(txt)
           m_q == QNUM_RE(txt)
           m_opt == OPTION_RE(txt)
       IN  IF sec # None
           THEN /\ questions' = flush
                /\ current_subject' = sec
                /\ current_qnum' = NoNum
                /\ current_qtext' = <<>>
                /\ current_opts' = <<>>
           ELSE IF m_q.matched
           THEN /\ questions' = flush
                /\ current_qnum' = ParseInt(m_q.g1)
                /\ current_qtext' = strip(m_q.g2)
                /\ current_opts' = <<>>
                /\ UNCHANGED current_subject
           ELSE IF m_opt.matched
           THEN /\ current_opts' = Append(current_opts, OptionObj(OptionKey(txt), clean(m_opt.g1)))
                /\ UNCHANGED <<questions, current_subject, current_qnum, current_qtext>>
           ELSE /\ current_qtext' = NextQText(current_qtext, txt)
                /\ UNCHANGED <<questions, current_subject, current_qnum, current_opts>>
    /\ pos' = pos + 1
    /\ UNCHANGED <<lines, pc>>
    /\ UNCHANGED answerVars

\* one iteration of the for loop of parse_questions
QuestionsStep ==
    /\ pc = "questions"
    /\ pos < Len(lines)
    /\ LET txt == Line(pos)
           sec == detect_section(txt)
           m_q == QNUM_RE(txt)
           m_opt == OPTION_RE(txt)
       IN  IF sec # None
           THEN /\ questions' = flush
                /\ current_subject' = sec
                /\ current_qnum' = NoNum
                /\ current_qtext' = <<>>
                /\ current_opts' = <<>>
           ELSE IF m_q.matched
           THEN /\ questions' = flush
                /\ current_qnum' = ParseInt(m_q.g1)
                /\ current_qtext' = strip(m_q.g2)
                /\ current_opts' = <<>>
                /\ UNCHANGED current_subject
           ELSE IF current_qnum # NoNum /\ m_opt.matched
           THEN /\ current_opts' = Append(current_opts, OptionObj(OptionKey(txt), clean(m_opt.g1)))
                /\ UNCHANGED <<questions, current_subject, current_qnum, current_qtext>>
           ELSE IF current_qnum # NoNum
           THEN /\ current_qtext' = NextQText(current_qtext, txt)
                /\ UNCHANGED <<questions, current_subject, current_qnum, current_opts>>
           ELSE UNCHANGED <<questions, current_subject, current_qnum, current_qtext, current_opts>>
    /\ pos' = pos + 1
    /\ UNCHANGED <<lines, pc>>
    /\ UNCHANGED answerVars

\* the end of the for loop: the final flush and the return to main
QuestionsReturn ==
    /\ pc = "questions"
    /\ pos >= Len(lines)
    /\ questions' = flush
    /\ pc' = "done"
    /\ UNCHANGED <<lines, pos, current_subject, current_qnum, current_qtext, current_opts>>
    /\ UNCHANGED answerVars

Next == FindMarker \/ AnswersStep \/ AnswersReturn \/ QuestionsStep \/ QuestionsReturn

Spec == Init /\ [][Next]_vars

(* ------------------- parse_questions on any answer map ----------------- *)

\* answer maps handed to parse_questions: the empty one, and one that no
\* answer key of the documents yields
AnyMaps == {EmptyMap, [n \in {0, 2} |-> <<<<"D">>, <<"r", "a", "t", "i", "o">>>>]}

\* the call parse_questions(lines, ans_map) on a short document and any of
\* the maps
InitAnyMap ==
    /\ lines \in BoundedSeq(Catalogue, MaxLen)
    /\ ans_map \in AnyMaps
    /\ pc = "questions"
    /\ idx = -1
    /\ i = 0
    /\ current_q = NoNum
    /\ current_ans = <<>>
    /\ collecting = FALSE
    /\ expl_buf = <<>>
    /\ pos = 0
    /\ questions = <<>>
    /\ current_subject = None
    /\ current_qnum = NoNum
    /\ current_qtext = <<>>
    /\ current_opts = <<>>

NextSegmenter == QuestionsStep \/ QuestionsReturn

SpecAnyMap == InitAnyMap /\ [][NextSegmenter]_vars



(* ------------------------------- types --------------------------------- *)

TypeOK ==
    /\ pc \in {"find_marker", "answers", "questions", "done"}
    /\ idx \in -1..Len(lines)
    /\ i \in 0..Len(lines)
    /\ pos \in 0..Len(lines)
    /\ current_q \in -1..999
    /\ current_qnum \in -1..999
    /\ collecting \in BOOLEAN
    /\ DOMAIN ans_map \subseteq 0..999

(* ------------------------ reading the document ------------------------- *)

\* the lines a document can hold
AllLines == Catalogue \cup BodyLines \cup KeyLines \cup {Scenario[k] : k \in 1..Len(Scenario)}

\* the lines the segmenter handles in its section-header branch
HeaderLines == {l \in AllLines : detect_section(l) # None}

\* the lines the segmenter handles in its question-start branch
QStartLines == {l \in AllLines \ HeaderLines : QNUM_RE(l).matched}

\* the lines the segmenter handles in its option branch when a question is open
OptionLines == {l \in AllLines \ (HeaderLines \cup QStartLines) : OPTION_RE(l).matched}

\* the lines that contain a marks notation
MarksLines == {l \in AllLines : MARKS_RE(l)}

\* line k is handled by the section-header branch of the segmenter
IsHeaderAt(k) == Line(k) \in HeaderLines

\* line k is handled by the question-start branch of the segmenter
IsQStartAt(k) == Line(k) \in QStartLines

\* line k is handled by the option branch when a question is open
IsOptionAt(k) == Line(k) \in OptionLines

\* the number of lines the segmenter has handled
Handled == IF pc = "done" THEN Len(lines) ELSE pos

RECURSIVE Ascending(_)
\* the members of a set of integers, in increasing order
Ascending(S) ==
    IF S = {} THEN <<>>
    ELSE LET least == CHOOSE x \in S : \A y \in S : x <= y
         IN  <<least>> \o Ascending(S \ {least})

\* the indices of the question-start lines, in document order
QStartIdx == Ascending({k \in 0..(Len(lines) - 1) : IsQStartAt(k)})

\* the index of the first boundary line after line s, the end of the input
\* when there is none
NextBoundary(s) ==
    LET later == {k \in (s + 1)..(Len(lines) - 1) : IsHeaderAt(k) \/ IsQStartAt(k)}
    IN  IF later = {} THEN Len(lines) ELSE CHOOSE k \in later : \A h \in later : k <= h

\* the index of the last section-header line before line s, -1 when there is
\* none
LastHeaderBefore(s) ==
    LET earlier == {k \in 0..(s - 1) : IsHeaderAt(k)}
    IN  IF earlier = {} THEN -1 ELSE CHOOSE k \in earlier : \A h \in earlier : h <= k

(* ------------------------------- claims -------------------------------- *)

\* C1: on the scenario document, parse_answers then parse_questions yield
\* exactly one record: subject "General Awareness", q.en "What is 2+2?",
\* options [(A, "3"), (B, "4")], answer "B", explanation.en
\* "Basic arithmetic.".
C1_ScenarioOneRecord ==
    (pc = "done" /\ lines = Scenario) =>
        /\ Len(questions) = 1
        /\ questions[1].subject = <<"G", "e", "n", "e", "r", "a", "l", " ", "A", "w", "a", "r", "e", "n", "e", "s", "s">>
        /\ questions[1].q_en = <<"W", "h", "a", "t", " ", "i", "s", " ", "2", "+", "2", "?">>
        /\ questions[1].options = <<OptionObj("A", <<"3">>), OptionObj("B", <<"4">>)>>
        /\ questions[1].answer = <<"B">>
        /\ questions[1].explanation_en = <<"B", "a", "s", "i", "c", " ", "a", "r", "i", "t", "h", "m", "e", "t", "i", "c", ".">>

\* C2: a commit of parse_answers never overwrites an existing mapping: an
\* entry of the map, once made, keeps its (letter, explanation) pair, so the
\* final map holds the pair of the first occurrence of each number.
C2_CommitNeverOverwrites ==
    [][\A n \in DOMAIN ans_map : n \in DOMAIN ans_map' /\ ans_map'[n] = ans_map[n]]_vars

\* C3, as stated: no line that contains a marks notation appears, verbatim or
\* as a substring, in the question text q.en of any record.
C3_NoMarksLineInText ==
    \A r \in 1..Len(questions) : \A k \in 1..Len(lines) :
        lines[k] \in MarksLines => ~Contains(questions[r].q_en, lines[k])

\* C3, amended: a line that contains a marks notation and is handled neither
\* as a section header nor as a question-start is discarded: handling it
\* leaves the accumulated question text and the output list unchanged.
C3_MarksLineDiscarded ==
    [][(/\ pc = "questions"
        /\ pos < Len(lines)
        /\ Line(pos) \in MarksLines
        /\ ~IsHeaderAt(pos)
        /\ ~IsQStartAt(pos))
       => (current_qtext' = current_qtext /\ questions' = questions)]_vars

\* C3 witness: a marks line has just been handled while a question with
\* accumulated text is open.
C3_Witness ==
    /\ pc = "questions"
    /\ pos > 0
    /\ Line(pos - 1) \in MarksLines
    /\ ~IsHeaderAt(pos - 1)
    /\ ~IsQStartAt(pos - 1)
    /\ current_qnum # NoNum
    /\ current_qtext # <<>>

\* C4: the records, together with the question still open, are exactly one
\* per line handled as a question-start so far, wherever the line lies; at
\* the return the number of records equals the number of question-starts.
C4_OneRecordPerQuestionStart ==
    Len(questions) + (IF pc # "done" /\ current_qnum # NoNum THEN 1 ELSE 0)
        = Cardinality({k \in 0..(Handled - 1) : IsQStartAt(k)})

\* C4 witness: the segmenter has returned several records, one of them for a
\* question-start after the ANSWERS marker and two of them with one number.
C4_Witness ==
    /\ pc = "done"
    /\ idx >= 0
    /\ \E k \in (idx + 1)..(Len(lines) - 1) : IsQStartAt(k)
    /\ \E k \in 0..(idx - 1) : IsQStartAt(k)
    /\ \E r1, r2 \in 1..Len(questions) : r1 # r2 /\ questions[r1].qnum = questions[r2].qnum

\* C5: every record with number N carries the pair ans_map[N] as (answer,
\* explanation.en) when N is a key of the answer map, and two empty strings
\* when it is not, also when N recurs in the body.
C5_MergeCorrectness ==
    \A r \in 1..Len(questions) :
        LET n == questions[r].qnum
        IN  IF n \in DOMAIN ans_map
            THEN <<questions[r].answer, questions[r].explanation_en>> = ans_map[n]
            ELSE questions[r].answer = <<>> /\ questions[r].explanation_en = <<>>

\* C5 witness: a number recurs in the body and is a key of the answer map
\* with a non-empty explanation.
C5_Witness ==
    /\ pc = "done"
    /\ \E r1, r2 \in 1..Len(questions) :
          /\ r1 # r2
          /\ questions[r1].qnum = questions[r2].qnum
          /\ questions[r1].qnum \in DOMAIN ans_map
          /\ ans_map[questions[r1].qnum][2] # <<>>

\* C6: when no line starts with "ANSWERS" in any case, the answer map is
\* empty and every record has answer "" and explanation.en "", whatever
\* answer-lines and explanation headers the input holds.
C6_NoMarkerNoAnswers ==
    (\A k \in 1..Len(lines) : ~StartsWith(upper(lines[k]), <<"A", "N", "S", "W", "E", "R", "S">>)) =>
        /\ ans_map = EmptyMap
        /\ \A r \in 1..Len(questions) :
              questions[r].answer = <<>> /\ questions[r].explanation_en = <<>>

\* C6 witness: a document without marker, with an answer-line followed by an
\* explanation header and a text line, has been parsed into records.
C6_Witness ==
    /\ pc = "done"
    /\ \A k \in 1..Len(lines) : ~StartsWith(upper(lines[k]), <<"A", "N", "S", "W", "E", "R", "S">>)
    /\ \E k \in 1..(Len(lines) - 2) :
          /\ ANS_LINE_RE(lines[k]).matched
          /\ EXPL_HDR_RE(lines[k + 1])
          /\ strip(lines[k + 2]) # <<>>
    /\ Len(questions) >= 1

\* C7: every option key is one of A, B, C, D and is the uppercased first
\* character of its line, and the options of the r-th record are exactly the
\* option lines between the r-th question-start and the next section header,
\* question-start or end of input, in document order.
C7_OptionsOfRecord ==
    \A r \in 1..Len(questions) :
        LET s == QStartIdx[r]
            own == Ascending({k \in (s + 1)..(NextBoundary(s) - 1) : IsOptionAt(k)})
        IN  /\ Len(questions[r].options) = Len(own)
            /\ \A o \in 1..Len(own) :
                  /\ questions[r].options[o].key \in {"A", "B", "C", "D"}
                  /\ questions[r].options[o].key = UpperChar(Line(own[o])[1])
                  /\ questions[r].options[o].en = clean(OPTION_RE(Line(own[o])).g1)

\* C7 witness: a record has two options with different keys, met in an order
\* that is not the alphabetical one, the first written in lower case.
C7_Witness ==
    /\ pc = "done"
    /\ \E r \in 1..Len(questions) :
          /\ Len(questions[r].options) = 2
          /\ questions[r].options[1].key = "C"
          /\ questions[r].options[2].key = "A"
          /\ Line(QStartIdx[r] + 1)[1] = "c"

\* C8: the subject of every record is non-empty: it is the canonical name of
\* the last section-header line before the record's question-start, and
\* "General" when no section header precedes that line.
C8_SubjectOfRecord ==
    \A r \in 1..Len(questions) :
        LET h == LastHeaderBefore(QStartIdx[r])
        IN  /\ questions[r].subject # <<>>
            /\ questions[r].subject = IF h < 0 THEN <<"G", "e", "n", "e", "r", "a", "l">> ELSE detect_section(Line(h))

\* C8 witness: two records follow one section header and carry its subject.
C8_Witness ==
    /\ pc = "done"
    /\ \E r \in 2..Len(questions) :
          /\ LastHeaderBefore(QStartIdx[r]) >= 0
          /\ LastHeaderBefore(QStartIdx[r]) = LastHeaderBefore(QStartIdx[r - 1])
          /\ questions[r].subject = questions[r - 1].subject
          /\ questions[r].subject # <<"G", "e", "n", "e", "r", "a", "l">>

\* C9: the r-th record carries the number captured from the r-th line
\* handled as a question-start, in document order, each occurrence of a
\* number giving its own record.
C9_FlushOrder ==
    \A r \in 1..Len(questions) :
        /\ r <= Len(QStartIdx)
        /\ questions[r].qnum = ParseInt(QNUM_RE(Line(QStartIdx[r])).g1)

\* C9 witness: the numbers of the records decrease, skip a number and recur.
C9_Witness ==
    /\ pc = "done"
    /\ Len(questions) = Len(QStartIdx)
    /\ \E r \in 1..(Len(questions) - 2) :
          /\ questions[r].qnum > questions[r + 1].qnum + 1
          /\ questions[r + 1].qnum = questions[r + 2].qnum

\* C10: the number of every record is a positive integer, never 0.
C10_NumberPositive == \A r \in 1..Len(questions) : questions[r].qnum >= 1

\* C11: a question-start line followed at once by another question-start
\* line gives a record for the first line with no options and no continuation
\* text: its text is what that line captured after the number.
C11_BareQuestionStart ==
    \A r \in 1..Len(questions) :
        LET s == QStartIdx[r]
        IN  (s + 1 < Len(lines) /\ IsQStartAt(s + 1)) =>
                /\ questions[r].options = <<>>
                /\ questions[r].q_en = clean(strip(QNUM_RE(Line(s)).g2))

\* C11 witness: a question with an option has been flushed,
\* and the record after it comes from a question-start that is followed at
\* once by another question-start.
C11_Witness ==
    /\ pc = "done"
    /\ \E r \in 2..Len(questions) :
          /\ QStartIdx[r] + 1 < Len(lines)
          /\ IsQStartAt(QStartIdx[r] + 1)
          /\ questions[r - 1].options # <<>>
          /\ questions[r].q_en # <<>>
          /\ questions[r].q_en # questions[r - 1].q_en

\* the lines the segmenter appends to the text of an open question
PlainLines ==
    {l \in AllLines \ (HeaderLines \cup QStartLines \cup OptionLines \cup MarksLines) :
        l # <<>> /\ ~IsMarker(l)}

RECURSIVE Continuation(_, _)
\* the text the lines k .. e - 1 add to an open question
Continuation(k, e) ==
    IF k >= e THEN <<>>
    ELSE (IF Line(k) \in PlainLines THEN <<" ">> \o Line(k) ELSE <<>>) \o Continuation(k + 1, e)

\* the text of the question that starts at line s, before clean()
RawTextOf(s) == strip(QNUM_RE(Line(s)).g2) \o Continuation(s + 1, NextBoundary(s))

\* the subject in force at line s, None before the first section header
SubjectBefore(s) ==
    IF LastHeaderBefore(s) < 0 THEN None ELSE detect_section(Line(LastHeaderBefore(s)))

\* the options of the question that starts at line s
OptionsOf(s) ==
    LET own == Ascending({k \in (s + 1)..(NextBoundary(s) - 1) : IsOptionAt(k)})
    IN  [o \in 1..Len(own) |->
            OptionObj(UpperChar(Line(own[o])[1]), clean(OPTION_RE(Line(own[o])).g1))]

BothLines ==
    {l \in AllLines :
        /\ \E k \in 1..Len(SECTION_HEADERS) : Contains(upper(clean(l)), SECTION_HEADERS[k][1])
        /\ LeadNumber(l).matched}

\* the canonical name of the first header phrase of SECTION_HEADERS found in l
HeaderName(l) ==
    SECTION_HEADERS[CHOOSE k \in 1..Len(SECTION_HEADERS) :
        /\ Contains(upper(clean(l)), SECTION_HEADERS[k][1])
        /\ \A h \in 1..(k - 1) : ~Contains(upper(clean(l)), SECTION_HEADERS[h][1])][2]

\* C13: a line that is both a section header and a question-start is handled
\* as a header: once it is handled, and until the next boundary line is, the
\* question before it has been flushed, the subject is the header's, no
\* question is open and nothing accumulates, and the line has no record of
\* its own.
C13_HeaderBeforeQuestionStart ==
    pc \in {"questions", "done"} =>
        \A h \in 0..(Handled - 1) :
            (Line(h) \in BothLines /\ Handled <= NextBoundary(h)) =>
                /\ current_subject = HeaderName(Line(h))
                /\ current_qnum = NoNum
                /\ current_qtext = <<>>
                /\ current_opts = <<>>
                /\ Len(questions) = Cardinality({k \in 0..(h - 1) : Line(k) \in QStartLines})

\* C13 witness: a question was open when such a line came, and an option
\* line after it has been handled and dropped.
C13_Witness ==
    /\ pc = "questions"
    /\ pos >= 3
    /\ Line(pos - 3) \in QStartLines
    /\ Line(pos - 2) \in BothLines
    /\ OPTION_RE(Line(pos - 1)).matched
    /\ Len(questions) = 1
    /\ current_opts = <<>>

\* C14: a line handled as an option never changes the accumulated question
\* text, and while no question is open a line that is neither a section
\* header nor a question-start leaves the subject, the number, the text, the
\* options and the output list as they were.
C14_InactiveLinesDropped ==
    [][(/\ pc = "questions"
        /\ pos < Len(lines)
        /\ ~IsHeaderAt(pos)
        /\ ~IsQStartAt(pos))
       => /\ IsOptionAt(pos) => current_qtext' = current_qtext
          /\ current_qnum = NoNum =>
                UNCHANGED <<questions, current_subject, current_qnum, current_qtext, current_opts>>]_vars

\* C14 witness: an option line was handled before any question-start and
\* dropped, and another was handled for the question that followed, whose
\* text it left alone.
C14_Witness ==
    /\ pc = "questions"
    /\ pos = 3
    /\ IsOptionAt(0)
    /\ IsQStartAt(1)
    /\ IsOptionAt(2)
    /\ Len(current_opts) = 1
    /\ current_qtext = strip(QNUM_RE(Line(1)).g2)
    /\ questions = <<>>

\* the lines ANS_LINE_RE matches
AnsLines == {l \in AllLines : ANS_LINE_RE(l).matched}

\* the lines EXPL_HDR_RE matches
ExplHdrLines == {l \in AllLines : EXPL_HDR_RE(l)}

\* among the lines of the answer key before line k, the last answer-line or
\* explanation header is an answer-line
AfterAnswerLine(k) ==
    \E a \in (idx + 1)..(k - 1) :
        /\ Line(a) \in AnsLines
        /\ \A h \in (a + 1)..(k - 1) : Line(h) \notin ExplHdrLines

\* C15: an answer-line clears the collecting flag and an explanation header
\* or answer-line adds nothing to the explanation buffer; a line between an
\* answer-line and the next explanation header changes neither the buffer
\* nor the map, so it reaches no explanation.
C15_CollectingClearedByAnswer ==
    [][(pc = "answers" /\ i < Len(lines))
       => /\ Line(i) \in AnsLines => (collecting' = FALSE /\ expl_buf' \in {expl_buf, <<>>})
          /\ Line(i) \in ExplHdrLines => expl_buf' = expl_buf
          /\ (Line(i) \notin (AnsLines \cup ExplHdrLines) /\ AfterAnswerLine(i))
                => (expl_buf' = expl_buf /\ ans_map' = ans_map)]_vars

\* C15 witness: the scan was collecting when an answer-line came, and a text
\* line after that answer-line has been handled and not collected.
C15_Witness ==
    /\ pc = "answers"
    /\ i >= idx + 4
    /\ Line(i - 3) \in ExplHdrLines
    /\ Line(i - 2) \in AnsLines
    /\ Line(i - 1) \notin (AnsLines \cup ExplHdrLines)
    /\ strip(Line(i - 1)) # <<>>
    /\ collecting = FALSE
    /\ expl_buf = <<>>

\* C16: parse_answers terminates: the line index stays within the answer
\* key, and the iteration on the line the loop stands at advances the index
\* by one, so that Len(lines) - i decreases in every iteration; the
\* `continue` that does not advance is never taken.
C16_ParseAnswersTerminates ==
    pc = "answers" =>
        /\ i \in (idx + 1)..Len(lines)
        /\ i < Len(lines) => NextIndex(Line(i), collecting, i) = i + 1

\* C16 witness: an answer-line met while the scan was collecting has been
\* consumed by the answer-line branch, and the index has moved past it.
C16_Witness ==
    /\ pc = "answers"
    /\ i >= idx + 3
    /\ Line(i - 2) \in ExplHdrLines
    /\ Line(i - 1) \in AnsLines
    /\ collecting = FALSE
    /\ current_q = ParseInt(ANS_LINE_RE(Line(i - 1)).g1)


\* the stripped non-blank lines of k..(e - 1) that follow an explanation header;
\* coll tells whether a header precedes line k
RECURSIVE ExplParts(_, _, _)
ExplParts(k, e, coll) ==
    IF k >= e THEN <<>>
    ELSE IF Line(k) \in ExplHdrLines THEN ExplParts(k + 1, e, TRUE)
    ELSE IF coll /\ strip(Line(k)) # <<>>
         THEN <<strip(Line(k))>> \o ExplParts(k + 1, e, coll)
         ELSE ExplParts(k + 1, e, coll)

\* the index of the first answer-line after line a, len(lines) when there is
\* none
NextAnswerLine(a) ==
    IF \E b \in (a + 1)..(Len(lines) - 1) : Line(b) \in AnsLines
    THEN CHOOSE b \in (a + 1)..(Len(lines) - 1) :
             /\ Line(b) \in AnsLines
             /\ \A h \in (a + 1)..(b - 1) : Line(h) \notin AnsLines
    ELSE Len(lines)

\* C17: every entry of the returned map holds the letter of an answer-line of
\* its number and the explanation collected between that answer-line and the
\* next one; text collected before the first answer-line is in no entry.
C17_ExplanationFromOwnLines ==
    (pc \in {"questions", "done"} /\ idx >= 0) =>
        \A n \in DOMAIN ans_map :
            \E a \in (idx + 1)..(Len(lines) - 1) :
                /\ Line(a) \in AnsLines
                /\ ParseInt(ANS_LINE_RE(Line(a)).g1) = n
                /\ upper(ANS_LINE_RE(Line(a)).g2) = ans_map[n][1]
                /\ ans_map[n][2] =
                       clean(JoinSpace(ExplParts(a + 1, NextAnswerLine(a), FALSE)))


\* the lines the marker scan stops at
MarkerLines == {l \in AllLines : IsMarker(l)}

\* the values an answer field takes: the empty string or one letter of A..D
AnswerLetters == {<<>>, <<"A">>, <<"B">>, <<"C">>, <<"D">>}

\* line k is an answer-line below some marker line, that is, below the first
KeyAnswerLine(k) ==
    /\ Line(k) \in AnsLines
    /\ \E h \in 0..(k - 1) : Line(h) \in MarkerLines

\* C18: the answer field of every output record is empty or one uppercase
\* letter of A..D, and every key of the answer map is in 0..999 and is the
\* number of an answer-line located after the first marker line.
C18_AnswersAndKeysWellFormed ==
    /\ \A r \in 1..Len(questions) : questions[r].answer \in AnswerLetters
    /\ \A n \in DOMAIN ans_map :
           /\ n \in 0..999
           /\ ans_map[n][1] \in AnswerLetters \ {<<>>}
           /\ \E k \in 0..(Len(lines) - 1) :
                  /\ KeyAnswerLine(k)
                  /\ ParseInt(ANS_LINE_RE(Line(k)).g1) = n

\* C18 witness: a finished run where an answer-line above the marker left no
\* entry, an answer-line below it did, and the output holds a record with a
\* letter and a record without
C18_Witness ==
    /\ pc = "done"
    /\ idx >= 1
    /\ \E k \in 0..(idx - 1) :
           /\ Line(k) \in AnsLines
           /\ ParseInt(ANS_LINE_RE(Line(k)).g1) \notin DOMAIN ans_map
    /\ DOMAIN ans_map # {}
    /\ \E r \in 1..Len(questions) : questions[r].answer \in {<<"A">>, <<"B">>, <<"C">>, <<"D">>}
    /\ \E r \in 1..Len(questions) : questions[r].answer = <<>>

====
